---- MODULE Spec2Model ----
(***************************************************************************)
(* Multimodal carbon footprint calculator: the three Streamlit scripts     *)
(* MM_transport_emissions.py ("MM"), calculator3.py ("calc3") and          *)
(* carbon_footprint_viz.py ("viz").                                        *)
(*                                                                         *)
(* Numbers.  The scripts compute in floats; the model computes the same    *)
(* expressions exactly, in fixed point:                                    *)
(*   weight_kg, distance_km        whole kg / km                           *)
(*   weight_tonnes                 1/TonneScale tonne                      *)
(*   emission factor, efficiency   1/FactorScale kg per tonne-km           *)
(*   emissions                     1/(TonneScale*FactorScale) kg           *)
(* Strings are sequences of one-character strings, so that str.lower() is  *)
(* computed character by character.                                        *)
(***************************************************************************)
EXTENDS Integers, Sequences, FiniteSets, TLC

VARIABLES
    variant,   \* which of the three scripts is running
    route,     \* st.session_state.route_segments
    view,      \* what the last run of the script computed and displayed
    toast,     \* the message of the last run (st.toast / st.success)
    call,      \* a direct call of calculate_emissions and its outcome
    stale      \* the delete callbacks that ran since the last run of the script

vars == <<variant, route, view, toast, call, stale>>

Variants == {"MM", "calc3", "viz"}

(***************************************************************************)
(* Bounds of the model and scales of the fixed-point numbers.              *)
(***************************************************************************)
MaxRoute == 2
MaxClock == 1

KgPerTonne == 1000
TonneScale == KgPerTonne
FactorScale == 1000
MinValueNum == 1
MinValueDen == 10

(***************************************************************************)
(* Strings and str.lower().                                                *)
(***************************************************************************)
UpperAlphabet ==
    <<"A","B","C","D","E","F","G","H","I","J","K","L","M",
      "N","O","P","Q","R","S","T","U","V","W","X","Y","Z">>
LowerAlphabet ==
    <<"a","b","c","d","e","f","g","h","i","j","k","l","m",
      "n","o","p","q","r","s","t","u","v","w","x","y","z">>

LowerChar(c) ==
    IF \E i \in DOMAIN UpperAlphabet : UpperAlphabet[i] = c
    THEN LowerAlphabet[CHOOSE i \in DOMAIN UpperAlphabet : UpperAlphabet[i] = c]
    ELSE c

lower(s) == [i \in DOMAIN s |-> LowerChar(s[i])]

\* The mode ids of the scripts.
car == <<"c","a","r">>
truck == <<"t","r","u","c","k">>
mini_truck == <<"m","i","n","i","_","t","r","u","c","k">>
railway == <<"r","a","i","l","w","a","y">>
seaway == <<"s","e","a","w","a","y">>
air == <<"a","i","r">>
barge == <<"b","a","r","g","e">>

\* Other strings a caller can pass.
TRUCK == <<"T","R","U","C","K">>
Truck == <<"T","r","u","c","k">>
CAR == <<"C","A","R">>
Mini_Truck == <<"M","i","n","i","_","T","r","u","c","k">>
AIR == <<"A","I","R">>
hovercraft == <<"h","o","v","e","r","c","r","a","f","t">>
empty_string == <<>>

\* Display names (MM only).
Car_Van == <<"C","a","r","/","V","a","n">>
Heavy_Truck == <<"H","e","a","v","y"," ","T","r","u","c","k">>
Medium_Truck == <<"M","e","d","i","u","m"," ","T","r","u","c","k">>
Train == <<"T","r","a","i","n">>
Cargo_Ship == <<"C","a","r","g","o"," ","S","h","i","p">>
Air_Freight == <<"A","i","r"," ","F","r","e","i","g","h","t">>
River_Barge == <<"R","i","v","e","r"," ","B","a","r","g","e">>

(***************************************************************************)
(* dict.get: None or the value.                                            *)
(***************************************************************************)
None == [isNone |-> TRUE]
Some(x) == [isNone |-> FALSE, val |-> x]
get(d, k) == IF k \in DOMAIN d THEN Some(d[k]) ELSE None
get_default(d, k, default) == IF k \in DOMAIN d THEN d[k] ELSE default
\* Python's truth value of an Optional[float]: None and 0.0 are false.
not(x) == x.isNone \/ x.val = 0

(***************************************************************************)
(* MultimodalCarbonFootprintCalculator.__init__: the tables.               *)
(***************************************************************************)
emission_factors_in(v) ==
    IF v = "MM"
    THEN (car :> 158) @@ (truck :> 88) @@ (mini_truck :> 122) @@ (railway :> 23)
         @@ (seaway :> 7) @@ (air :> 805) @@ (barge :> 35)
    ELSE (car :> 171) @@ (truck :> 96) @@ (mini_truck :> 137) @@ (railway :> 28)
         @@ (seaway :> 8)

\* The tables are built once, in __init__.
emission_factors_table == [v \in Variants |-> emission_factors_in(v)]
emission_factors(v) == emission_factors_table[v]

\* The colour values are presentation only; the key set is what the code reads.
mode_colors_table ==
    [v \in Variants |-> [m \in DOMAIN emission_factors(v) |-> "colour"]]
mode_colors(v) == mode_colors_table[v]

\* A mutant of mode_groups: barge is in no group.
mode_groups_in_no_barge(v) ==
    CASE v = "MM" ->
            << [group |-> "road", modes |-> <<car, truck, mini_truck>>],
               [group |-> "rail", modes |-> <<railway>>],
               [group |-> "maritime", modes |-> <<seaway>>],
               [group |-> "air", modes |-> <<air>>] >>
      [] v = "calc3" ->
            << [group |-> "roadways", modes |-> <<car, truck, mini_truck>>],
               [group |-> "railways", modes |-> <<railway>>],
               [group |-> "seaways", modes |-> <<seaway>>] >>
      [] OTHER -> << >>

\* mode_groups as the ordered list of (group, modes) items of the dict.
mode_groups_in(v) ==
    CASE v = "MM" ->
            << [group |-> "road", modes |-> <<car, truck, mini_truck>>],
               [group |-> "rail", modes |-> <<railway>>],
               [group |-> "maritime", modes |-> <<seaway, barge>>],
               [group |-> "air", modes |-> <<air>>] >>
      [] v = "calc3" ->
            << [group |-> "roadways", modes |-> <<car, truck, mini_truck>>],
               [group |-> "railways", modes |-> <<railway>>],
               [group |-> "seaways", modes |-> <<seaway>>] >>
      [] OTHER -> << >>

mode_groups_table == [v \in Variants |-> mode_groups_in(v)]
mode_groups(v) == mode_groups_table[v]

\* A mutant of the display names: two modes share one display name.
mode_display_names_shared(v) ==
    IF v = "MM"
    THEN (car :> Car_Van) @@ (truck :> Heavy_Truck) @@ (mini_truck :> Heavy_Truck)
         @@ (railway :> Train) @@ (seaway :> Cargo_Ship) @@ (air :> Air_Freight)
         @@ (barge :> River_Barge)
    ELSE << >>

mode_display_names(v) ==
    IF v = "MM"
    THEN (car :> Car_Van) @@ (truck :> Heavy_Truck) @@ (mini_truck :> Medium_Truck)
         @@ (railway :> Train) @@ (seaway :> Cargo_Ship) @@ (air :> Air_Freight)
         @@ (barge :> River_Barge)
    ELSE << >>

\* {v: k for k, v in mode_display_names.items()}: a later key overwrites an
\* earlier one with the same display name.
KeyOrder(v) == <<car, truck, mini_truck, railway, seaway, air, barge>>
reverse_display_names(v) ==
    LET names == mode_display_names(v)
        Last(d) == CHOOSE i \in DOMAIN KeyOrder(v) :
                      /\ KeyOrder(v)[i] \in DOMAIN names
                      /\ names[KeyOrder(v)[i]] = d
                      /\ \A j \in DOMAIN KeyOrder(v) :
                            (KeyOrder(v)[j] \in DOMAIN names /\ names[KeyOrder(v)[j]] = d)
                               => j <= i
    IN [d \in {names[k] : k \in DOMAIN names} |-> KeyOrder(v)[Last(d)]]

\* The mapping is built once, in __init__.
display_to_internal_table == [v \in Variants |-> reverse_display_names(v)]
display_to_internal(v) == display_to_internal_table[v]

(***************************************************************************)
(* calculate_emissions.                                                    *)
(***************************************************************************)
Returned(value) == [raised |-> "none", value |-> value]
Raised(error) == [raised |-> error]

\* next((group for group, modes in mode_groups.items() if mode in modes), 'other')
RECURSIVE first_group(_, _, _)
first_group(groups, mode, i) ==
    IF i > Len(groups) THEN "other"
    ELSE IF \E j \in DOMAIN groups[i].modes : groups[i].modes[j] = mode
         THEN groups[i].group
         ELSE first_group(groups, mode, i + 1)

\* A mutant of weight_tonnes: floor division (weight_kg // 1000) loses the kg.
weight_tonnes_floored(weight_kg) == (weight_kg \div KgPerTonne) * TonneScale

\* weight_tonnes = weight_kg / 1000
weight_tonnes_of(weight_kg) == (weight_kg * TonneScale) \div KgPerTonne

\* A mutant of the efficiency: emissions per tonne, the distance is forgotten.
efficiency_per_tonne(emissions, weight_tonnes, distance_km) ==
    emissions \div weight_tonnes

\* efficiency = emissions / (weight_tonnes * distance_km)
efficiency_of(emissions, weight_tonnes, distance_km) ==
    emissions \div (weight_tonnes * distance_km)

calculate_emissions(v, weight_kg, distance_km, transport_mode) ==
    LET weight_tonnes == weight_tonnes_of(weight_kg)
        emission_factor == get(emission_factors(v), lower(transport_mode))
        emissions == weight_tonnes * distance_km * emission_factor.val
    IN  IF v = "viz"
        THEN \* no check of the factor: None in the product is a TypeError
             IF emission_factor.isNone THEN Raised("TypeError")
             ELSE Returned([transport_mode |-> transport_mode,
                            weight_kg |-> weight_kg,
                            distance_km |-> distance_km,
                            total_emissions_kg |-> emissions])
        ELSE IF not(emission_factor) THEN Raised("ValueError")
        ELSE IF weight_tonnes * distance_km = 0 THEN Raised("ZeroDivisionError")
        ELSE LET efficiency == efficiency_of(emissions, weight_tonnes, distance_km)
                 transport_group ==
                     first_group(mode_groups(v), lower(transport_mode), 1)
                 common == [transport_mode |-> transport_mode,
                            transport_group |-> transport_group,
                            weight_kg |-> weight_kg,
                            distance_km |-> distance_km,
                            total_emissions_kg |-> emissions,
                            efficiency_kg_per_tonne_km |-> efficiency]
             IN  IF v = "MM"
                 THEN Returned(common @@
                        [display_name |-> get_default(mode_display_names(v),
                                                      transport_mode, transport_mode)])
                 ELSE Returned(common)

(***************************************************************************)
(* The script run (main): what one run computes from the route.            *)
(***************************************************************************)
put(d, k, x) == [kk \in DOMAIN d \cup {k} |-> IF kk = k THEN x ELSE d[kk]]

\* A mutant of the accumulators: total_weight starts from the weight field's
\* default value instead of 0.
EmptyView_default_weight ==
    [raised |-> "none", delete_buttons |-> {}, computed |-> {},
     results |-> << >>, total_emissions |-> 0, total_distance |-> 0,
     total_weight |-> 1000, mode_emissions |-> << >>, category_emissions |-> << >>,
     diagram_total_emissions |-> 0, diagram_total_distance |-> 0,
     diagram_steps |-> << >>]

\* Nothing displayed yet; results = [], total_emissions = total_distance =
\* total_weight = 0 before the loop.
EmptyView ==
    [raised |-> "none", delete_buttons |-> {}, computed |-> {},
     results |-> << >>, total_emissions |-> 0, total_distance |-> 0,
     total_weight |-> 0, mode_emissions |-> << >>, category_emissions |-> << >>,
     diagram_total_emissions |-> 0, diagram_total_distance |-> 0,
     diagram_steps |-> << >>]

\* The segment cards: for idx, segment in enumerate(route_segments), one delete
\* button per segment; MM reads mode_colors[segment['mode']] on the way.
RECURSIVE segment_cards(_, _, _, _)
segment_cards(v, segments, i, acc) ==
    IF i > Len(segments) THEN acc
    ELSE IF v = "MM" /\ segments[i].mode \notin DOMAIN mode_colors(v)
         THEN [acc EXCEPT !.raised = "KeyError"]
         ELSE segment_cards(v, segments, i + 1,
                            [acc EXCEPT !.delete_buttons = @ \cup {i - 1}])

\* A mutant of the aggregation loop: the totals are assigned, not accumulated.
RECURSIVE aggregate_loop_assign(_, _, _, _)
aggregate_loop_assign(v, segments, i, acc) ==
    IF i > Len(segments) THEN acc
    ELSE LET segment == segments[i]
             result == calculate_emissions(v, segment.weight, segment.distance,
                                           segment.mode)
         IN  IF result.raised # "none"
             THEN [acc EXCEPT !.raised = result.raised]
             ELSE aggregate_loop_assign(v, segments, i + 1,
                     [acc EXCEPT !.results = Append(@, result.value),
                                 !.total_emissions = result.value.total_emissions_kg,
                                 !.total_distance = segment.distance,
                                 !.total_weight =
                                     IF v = "MM" THEN segment.weight ELSE @])

\* results = []; total_* = 0; for segment in route_segments: ... += ...
RECURSIVE aggregate_loop(_, _, _, _)
aggregate_loop(v, segments, i, acc) ==
    IF i > Len(segments) THEN acc
    ELSE LET segment == segments[i]
             result == calculate_emissions(v, segment.weight, segment.distance,
                                           segment.mode)
         IN  IF result.raised # "none"
             THEN [acc EXCEPT !.raised = result.raised]
             ELSE aggregate_loop(v, segments, i + 1,
                     [acc EXCEPT !.results = Append(@, result.value),
                                 !.total_emissions = @ + result.value.total_emissions_kg,
                                 !.total_distance = @ + segment.distance,
                                 !.total_weight =
                                     IF v = "MM" THEN @ + segment.weight ELSE @])

\* A mutant of the by-mode loop: the first value of a mode is kept.
RECURSIVE mode_emissions_loop_first(_, _, _, _)
mode_emissions_loop_first(v, results, i, acc) ==
    IF i > Len(results) THEN acc
    ELSE LET r == results[i]
             display_name == r.display_name
             internal_mode == get_default(display_to_internal(v), display_name,
                                          r.transport_mode)
         IN  mode_emissions_loop_first(v, results, i + 1,
                 put(acc, internal_mode,
                     get_default(acc, internal_mode, r.total_emissions_kg)))

\* mode_emissions = {}; for r in results: mode_emissions[internal_mode] = ... + ...
RECURSIVE mode_emissions_loop(_, _, _, _)
mode_emissions_loop(v, results, i, acc) ==
    IF i > Len(results) THEN acc
    ELSE LET r == results[i]
             display_name == r.display_name
             internal_mode == get_default(display_to_internal(v), display_name,
                                          r.transport_mode)
         IN  mode_emissions_loop(v, results, i + 1,
                 put(acc, internal_mode,
                     get_default(acc, internal_mode, 0) + r.total_emissions_kg))

\* A mutant of the by-group loop: the entry is assigned, not accumulated.
RECURSIVE category_emissions_loop_overwrite(_, _, _)
category_emissions_loop_overwrite(results, i, acc) ==
    IF i > Len(results) THEN acc
    ELSE LET r == results[i]
         IN  category_emissions_loop_overwrite(results, i + 1,
                 put(acc, r.transport_group, r.total_emissions_kg))

\* category_emissions = {}; for r in results: category_emissions[group] = ... + ...
RECURSIVE category_emissions_loop(_, _, _)
category_emissions_loop(results, i, acc) ==
    IF i > Len(results) THEN acc
    ELSE LET r == results[i]
         IN  category_emissions_loop(results, i + 1,
                 put(acc, r.transport_group,
                     get_default(acc, r.transport_group, 0) + r.total_emissions_kg))

\* dynamic_supply_chain_diagram.  A position is <<x, y>>, y in halves.
\* A mutant of the next position: every segment bends the same way.
next_position_up(v, idx, x, y) == <<x + 1, IF v = "MM" THEN y + 1 ELSE y>>

\* MM: next_x = x + 1; next_y = y + (0.5 if idx % 2 == 0 else -0.5)
\* viz: next_position = (x + 1, y)
next_position(v, idx, x, y) ==
    <<x + 1, IF v = "MM" THEN (IF idx % 2 = 0 THEN y + 1 ELSE y - 1) ELSE y>>

\* Where the line drawn so far ends: x, y = 0, 0 before the first segment.
current_position(steps) ==
    IF steps = << >> THEN <<0, 0>> ELSE steps[Len(steps)].to

\* A mutant of the diagram's emissions: whole tonnes only (weight // 1000).
diagram_emissions_floored(v, segment) ==
    (segment.weight \div KgPerTonne) * TonneScale * segment.distance
        * emission_factors(v)[segment.mode]

\* The emissions the diagram adds up for a segment that raises nothing.
\* MM: result['total_emissions_kg'] of calculate_emissions
\* viz: segment['weight'] / 1000 * segment['distance'] * emission_factors[mode]
diagram_emissions(v, segment) ==
    IF v = "MM"
    THEN calculate_emissions(v, segment.weight, segment.distance,
                             segment.mode).value.total_emissions_kg
    ELSE weight_tonnes_of(segment.weight) * segment.distance
            * emission_factors(v)[segment.mode]

\* The loop over enumerate(segments): one line per segment, from the current
\* position to the next, and the totals the figure is annotated with.
RECURSIVE diagram_loop(_, _, _, _)
diagram_loop(v, segments, i, acc) ==
    IF i > Len(segments) THEN acc
    ELSE LET segment == segments[i]
             from == current_position(acc.diagram_steps)
             to == next_position(v, i - 1, from[1], from[2])
             raised ==
                IF v = "MM"
                THEN LET result == calculate_emissions(v, segment.weight,
                                       segment.distance, segment.mode)
                     IN  IF result.raised # "none" THEN result.raised
                         ELSE IF segment.mode \notin DOMAIN mode_colors(v)
                              THEN "KeyError" ELSE "none"
                ELSE \* viz: the two sums are generator expressions over the
                     \* segments, evaluated before the loop
                     IF \E j \in DOMAIN segments :
                           segments[j].mode \notin DOMAIN emission_factors(v)
                        \/ segment.mode \notin DOMAIN mode_colors(v)
                     THEN "KeyError" ELSE "none"
         IN  IF raised # "none" THEN [acc EXCEPT !.raised = raised]
             ELSE diagram_loop(v, segments, i + 1,
                     [acc EXCEPT
                         !.diagram_total_distance =
                             IF v = "MM" THEN @ ELSE @ + segment.distance,
                         !.diagram_total_emissions = @ + diagram_emissions(v, segment),
                         !.diagram_steps =
                             Append(@, [from |-> from, to |-> to])])

dynamic_supply_chain_diagram(v, segments, acc) ==
    LET done == diagram_loop(v, segments, 1, acc)
    IN  IF done.raised # "none" THEN done
        ELSE [done EXCEPT !.computed = @ \cup {"diagram"}]

\* Tab 1 of MM: the two pie charts.
Dashboard(v, acc) ==
    LET by_mode == mode_emissions_loop(v, acc.results, 1, << >>)
        by_group == category_emissions_loop(acc.results, 1, << >>)
    IN  IF \E m \in DOMAIN by_mode :
              m \notin DOMAIN mode_display_names(v) \/ m \notin DOMAIN mode_colors(v)
        THEN [acc EXCEPT !.raised = "KeyError", !.mode_emissions = by_mode]
        ELSE [acc EXCEPT !.mode_emissions = by_mode,
                         !.category_emissions = by_group,
                         !.computed = @ \cup {"breakdown"}]

RenderMM(segments) ==
    LET cards == IF segments # << >>
                 THEN segment_cards("MM", segments, 1, EmptyView) ELSE EmptyView
        totals == IF cards.raised # "none" THEN cards
                  ELSE LET a == aggregate_loop("MM", segments, 1, cards)
                       IN  IF a.raised # "none" THEN a
                           ELSE [a EXCEPT !.computed = @ \cup
                                    {"total_emissions", "total_distance", "total_weight"}]
        tab1 == IF totals.raised # "none" \/ segments = << >> THEN totals
                ELSE Dashboard("MM", totals)
    IN  IF tab1.raised # "none" \/ segments = << >> THEN tab1
        ELSE dynamic_supply_chain_diagram("MM", segments, tab1)

RenderCalc3(segments) ==
    IF segments = << >> THEN EmptyView
    ELSE LET cards == segment_cards("calc3", segments, 1, EmptyView)
             a == aggregate_loop("calc3", segments, 1, cards)
         IN  IF a.raised # "none" THEN a
             ELSE \* bar_colors = [mode_colors[r['transport_mode']] for r in results]
                  IF \E i \in DOMAIN a.results :
                        a.results[i].transport_mode \notin DOMAIN mode_colors("calc3")
                  THEN [a EXCEPT !.raised = "KeyError",
                                 !.computed = {"total_emissions", "total_distance"}]
                  ELSE [a EXCEPT !.computed = {"total_emissions", "total_distance"}]

RenderViz(segments) ==
    IF segments = << >> THEN EmptyView
    ELSE dynamic_supply_chain_diagram("viz", segments,
                                      segment_cards("viz", segments, 1, EmptyView))

Render(v, segments) ==
    CASE v = "MM" -> RenderMM(segments)
      [] v = "calc3" -> RenderCalc3(segments)
      [] OTHER -> RenderViz(segments)

(***************************************************************************)
(* The widgets and the callbacks.                                          *)
(***************************************************************************)
\* A mutant of number_input: no min_value.
number_input_unbounded(value) == TRUE

\* st.number_input(..., min_value=0.1): the values the widget can return.
number_input(value) == value * MinValueDen >= MinValueNum

\* A mutant of selectbox: a free text field.
selectbox_free(v, option) == TRUE

\* st.selectbox(options=list(calculator.emission_factors.keys()))
selectbox(v, option) == option \in DOMAIN emission_factors(v)

\* A mutant of delete_segment: pops the last segment whatever the index.
delete_segment_last(segments, index) ==
    IF segments = << >> THEN [raised |-> "IndexError", route |-> segments]
    ELSE [raised |-> "none", route |-> SubSeq(segments, 1, Len(segments) - 1)]

\* A mutant of delete_segment: pops from a copy, the session list is kept.
delete_segment_copy(segments, index) ==
    IF index >= Len(segments) THEN [raised |-> "IndexError", route |-> segments]
    ELSE [raised |-> "none", route |-> segments]

\* A mutant of delete_segment: an index past the end pops the last segment.
delete_segment_clamped(segments, index) ==
    LET n == Len(segments)
        at == IF index < 0 THEN index + n ELSE IF index >= n THEN n - 1 ELSE index
    IN  IF at < 0 \/ at >= n
        THEN [raised |-> "IndexError", route |-> segments]
        ELSE [raised |-> "none",
              route |-> SubSeq(segments, 1, at) \o SubSeq(segments, at + 2, n)]

\* st.session_state.route_segments.pop(index), with Python's list.pop: a negative
\* index counts from the end, an index out of range raises IndexError.
delete_segment(segments, index) ==
    LET n == Len(segments)
        at == IF index < 0 THEN index + n ELSE index
    IN  IF at < 0 \/ at >= n
        THEN [raised |-> "IndexError", route |-> segments]
        ELSE [raised |-> "none",
              route |-> SubSeq(segments, 1, at) \o SubSeq(segments, at + 2, n)]

\* A mutant of reset_session: drops the last segment only.
reset_session_pop(segments) == SubSeq(segments, 1, Len(segments) - 1)

\* st.session_state.route_segments = []
reset_session(segments) == << >>

(***************************************************************************)
(* The inputs the model draws from.                                        *)
(***************************************************************************)
UserWeights == {-1000, 0, 500, 1000}
UserDistances == {-200, 0, 200, 400}
UserModes == {car, truck, mini_truck, railway, seaway, air, barge,
              TRUCK, Truck, CAR, Mini_Truck, AIR, hovercraft, empty_string}

NoCall == [outcome |-> [raised |-> "no call"]]
Pending == [raised |-> "pending"]

(***************************************************************************)
(* The session: one action per user interaction, each with the script run  *)
(* that follows it.                                                        *)
(***************************************************************************)
Init ==
    /\ variant \in Variants
    /\ route = << >>
    /\ view = Render(variant, route)
    /\ toast = "none"
    /\ call = NoCall
    /\ stale = << >>

AddSegment(weight, mode, distance) ==
    /\ Len(route) < MaxRoute
    /\ number_input(weight)
    /\ selectbox(variant, mode)
    /\ number_input(distance)
    /\ route' = Append(route, [mode |-> mode, distance |-> distance, weight |-> weight])
    /\ view' = Render(variant, route')
    /\ toast' = "added"
    /\ UNCHANGED <<variant, call, stale>>

DeleteSegment(index) ==
    /\ index \in view.delete_buttons
    /\ LET popped == delete_segment(route, index)
       IN  /\ route' = popped.route
           /\ toast' = IF popped.raised = "none" THEN "deleted" ELSE "none"
           /\ view' = IF popped.raised = "none" THEN Render(variant, route')
                      ELSE [Render(variant, route') EXCEPT !.raised = popped.raised]
    /\ UNCHANGED <<variant, call, stale>>

\* MM: the sidebar button with on_click=reset_session, always there.
\* calc3: the button at the end of the results section, then experimental_rerun.
\* viz: no such button.
ClearAll ==
    /\ variant # "viz"
    /\ variant = "calc3" => (route # << >> /\ view.raised = "none")
    /\ route' = reset_session(route)
    /\ view' = Render(variant, route')
    /\ toast' = IF variant = "MM" THEN "cleared" ELSE "none"
    /\ UNCHANGED <<variant, call, stale>>

Next ==
    \/ \E weight \in UserWeights, mode \in UserModes, distance \in UserDistances :
          AddSegment(weight, mode, distance)
    \/ \E index \in 0..MaxRoute : DeleteSegment(index)
    \/ ClearAll

Spec == Init /\ [][Next]_vars

(***************************************************************************)
(* The session when callbacks can run on a page that is not re-rendered    *)
(* between them: the delete buttons keep the args=(i,) of the last script  *)
(* run.  stale lists the callbacks run since that script run; before is    *)
(* the session list a callback found, left the positions (in the rendered  *)
(* list) of the segments it left.                                          *)
(***************************************************************************)
MaxStale == 2

Positions(segments) == [k \in 1..Len(segments) |-> k - 1]

\* on_click=delete_segment, args=(i,): the callback alone, the page as it was.
StaleDelete(index) ==
    /\ Len(stale) < MaxStale
    /\ index \in view.delete_buttons
    /\ LET popped == delete_segment(route, index)
           shown == IF stale = << >> THEN Positions(route)
                    ELSE stale[Len(stale)].left
       IN  /\ route' = popped.route
           /\ stale' = Append(stale, [index |-> index,
                                      raised |-> popped.raised,
                                      before |-> route,
                                      left |-> delete_segment(shown, index).route])
    /\ UNCHANGED <<variant, view, toast, call>>

\* The script run that follows the callbacks.
Rerun ==
    /\ stale # << >>
    /\ view' = LET raised == stale[Len(stale)].raised
               IN  IF raised = "none" THEN Render(variant, route)
                   ELSE [Render(variant, route) EXCEPT !.raised = raised]
    /\ stale' = << >>
    /\ UNCHANGED <<variant, route, toast, call>>

NextStale ==
    \/ \E weight \in UserWeights, mode \in UserModes, distance \in UserDistances :
          stale = << >> /\ AddSegment(weight, mode, distance)
    \/ \E index \in 0..MaxRoute : StaleDelete(index)
    \/ Rerun

SpecStale == Init /\ [][NextStale]_vars

(***************************************************************************)
(* calculate_emissions as a function: any caller, any arguments.           *)
(***************************************************************************)
\* 'timestamp': datetime.now() in the returned dict (MM and calc3).
calculate_emissions_at(now, v, weight_kg, distance_km, transport_mode) ==
    LET outcome == calculate_emissions(v, weight_kg, distance_km, transport_mode)
    IN  IF outcome.raised = "none" /\ v # "viz"
        THEN Returned(outcome.value @@ [timestamp |-> now])
        ELSE outcome

\* The readings of the clock.
Clock == 0..MaxClock

\* The routes a direct call finds in the session.
CalcRoutes ==
    {<< >>, <<[mode |-> car, distance |-> 200, weight |-> 1000]>>}

InitCalc ==
    /\ variant \in Variants
    /\ route \in CalcRoutes
    /\ view = Render(variant, route)
    /\ toast = "none"
    /\ call \in [weight_kg : UserWeights, distance_km : UserDistances,
                 transport_mode : UserModes, outcome : {Pending},
                 previous : {Pending}]
    /\ stale = << >>

\* A mutant of the call: the calculator also records the segment in the session.
Calculate_recording ==
    /\ call.previous = Pending
    /\ \E now \in Clock :
          call' = [call EXCEPT !.previous = call.outcome,
                               !.outcome =
                   calculate_emissions_at(now, variant, call.weight_kg,
                                          call.distance_km, call.transport_mode)]
    /\ route' = Append(route, [mode |-> call.transport_mode,
                               distance |-> call.distance_km,
                               weight |-> call.weight_kg])
    /\ UNCHANGED <<variant, view, toast, stale>>

\* One call with the arguments of the record; a second call with the same
\* arguments keeps the outcome of the first in previous.
Calculate ==
    /\ call.previous = Pending
    /\ \E now \in Clock :
          call' = [call EXCEPT !.previous = call.outcome,
                               !.outcome =
                   calculate_emissions_at(now, variant, call.weight_kg,
                                          call.distance_km, call.transport_mode)]
    /\ UNCHANGED <<variant, route, view, toast, stale>>

NextCalc == Calculate

SpecCalc == InitCalc /\ [][NextCalc]_vars

(***************************************************************************)
(* Properties.                                                             *)
(***************************************************************************)
RECURSIVE SumFn(_, _)
SumFn(f, S) ==
    IF S = {} THEN 0
    ELSE LET x == CHOOSE y \in S : TRUE IN f[x] + SumFn(f, S \ {x})

Modes(segments) == {segments[i].mode : i \in DOMAIN segments}
Segment(mode, weight, distance) ==
    [mode |-> mode, distance |-> distance, weight |-> weight]
\* n/10 kg of CO2 in the unit of the emissions.
TenthsOfKg(n) == (n * (TonneScale * FactorScale)) \div 10

\* C1: for a mode of the factor table, weight_kg > 0 and distance_km > 0,
\* calculate_emissions returns total_emissions_kg = (weight_kg / 1000) *
\* distance_km * factor(mode), in each of the three scripts.
C1_EmissionsFormula ==
    (/\ call.outcome # Pending
     /\ call.transport_mode \in DOMAIN emission_factors(variant)
     /\ call.weight_kg > 0
     /\ call.distance_km > 0)
    => /\ call.outcome.raised = "none"
       /\ LET tonnes == (call.weight_kg * TonneScale) \div KgPerTonne
          IN  /\ tonnes * KgPerTonne = call.weight_kg * TonneScale
              /\ call.outcome.value.total_emissions_kg =
                    tonnes * call.distance_km
                           * emission_factors(variant)[call.transport_mode]

C1_Witness ==
    /\ variant = "viz"
    /\ call.outcome.raised = "none"
    /\ call.transport_mode = truck
    /\ call.weight_kg = 500
    /\ call.distance_km = 400
    /\ call.outcome.value.total_emissions_kg = TenthsOfKg(192)

\* C2: calculate_emissions with a mode id that is absent from the factor table
\* fails with the unknown-mode error (ValueError), and with no other error
\* (stated for the calls with a positive weight and distance).
C2_UnknownModeIsValueError ==
    (/\ call.outcome # Pending
     /\ call.weight_kg > 0
     /\ call.distance_km > 0
     /\ lower(call.transport_mode) \notin DOMAIN emission_factors(variant))
    => call.outcome.raised = "ValueError"

\* C3: every segment stored in the route has weight > 0 and distance > 0, so
\* the divisor weight_tonnes * distance_km of calculate_emissions is never zero
\* and no run of the script raises ZeroDivisionError.
C3_PositiveSegments ==
    /\ \A i \in DOMAIN route :
          /\ route[i].weight > 0
          /\ route[i].distance > 0
          /\ weight_tonnes_of(route[i].weight) * route[i].distance # 0
    /\ view.raised # "ZeroDivisionError"

C3_Witness ==
    /\ toast = "added"
    /\ Len(route) = MaxRoute
    /\ \A i \in DOMAIN route : route[i].weight = 500 /\ route[i].distance = 200

\* C4: every segment stored in the route has a mode that is a key of the factor
\* table, and no run of the script raises an error on recomputing the results.
C4_KnownModes ==
    /\ \A i \in DOMAIN route : route[i].mode \in DOMAIN emission_factors(variant)
    /\ view.raised = "none"

C4_Witness ==
    /\ toast = "deleted"
    /\ route # << >>
    /\ route[1].mode = seaway
    /\ view.raised = "none"
    /\ view.delete_buttons = {0}

\* C5: the aggregated total emissions, total distance and total weight are the
\* sums over all segments of the per-segment emissions, distance and weight;
\* car 1000 kg x 200 km plus truck 500 kg x 400 km totals 49.2 kg in MM.
C5_TotalsAreSums ==
    /\ "total_emissions" \in view.computed =>
          /\ Len(view.results) = Len(route)
          /\ view.total_emissions =
                SumFn([i \in DOMAIN route |->
                          calculate_emissions(variant, route[i].weight,
                              route[i].distance, route[i].mode).value.total_emissions_kg],
                      DOMAIN route)
    /\ "total_distance" \in view.computed =>
          view.total_distance =
              SumFn([i \in DOMAIN route |-> route[i].distance], DOMAIN route)
    /\ "total_weight" \in view.computed =>
          view.total_weight =
              SumFn([i \in DOMAIN route |-> route[i].weight], DOMAIN route)
    /\ (variant # "viz" /\ route # << >>) =>
          {"total_emissions", "total_distance"} \subseteq view.computed
    /\ variant = "MM" => "total_weight" \in view.computed
    /\ (variant = "MM" /\ route = <<Segment(car, 1000, 200), Segment(truck, 500, 400)>>)
          => view.total_emissions = TenthsOfKg(492)

C5_Witness ==
    /\ variant = "MM"
    /\ route = <<Segment(car, 1000, 200), Segment(truck, 500, 400)>>
    /\ view.total_emissions = TenthsOfKg(492)
    /\ view.total_distance = 600
    /\ view.total_weight = 1500

\* C6: the run of the script on an empty route does not fail; the totals are 0
\* and there is no by-mode and no by-group entry.  (MM runs the aggregation
\* loop on the empty route; calc3 and viz skip it.)
C6_EmptyRoute ==
    route = << >> =>
       /\ view.raised = "none"
       /\ view.total_emissions = 0
       /\ view.total_distance = 0
       /\ view.total_weight = 0
       /\ DOMAIN view.mode_emissions = {}
       /\ DOMAIN view.category_emissions = {}
       /\ view.results = << >>
       /\ variant = "MM" =>
             {"total_emissions", "total_distance", "total_weight"} \subseteq view.computed

C6_Witness ==
    /\ variant = "MM"
    /\ route = << >>
    /\ toast = "cleared"
    /\ "total_emissions" \in view.computed
    /\ view.total_emissions = 0

\* C7: in MM the key set of mode_emissions is exactly the set of the modes of
\* the route, each value the sum of the emissions of the segments with that
\* mode; a route of a truck and a railway segment gives exactly two keys.
C7_ByMode ==
    variant = "MM" =>
       /\ route # << >> => "breakdown" \in view.computed
       /\ DOMAIN view.mode_emissions = Modes(route)
       /\ \A m \in Modes(route) :
             view.mode_emissions[m] =
                SumFn([i \in DOMAIN route |->
                          calculate_emissions(variant, route[i].weight,
                              route[i].distance, route[i].mode).value.total_emissions_kg],
                      {i \in DOMAIN route : route[i].mode = m})
       /\ (Len(route) = 2 /\ route[1].mode = truck /\ route[2].mode = railway)
             => Cardinality(DOMAIN view.mode_emissions) = 2

C7_Witness ==
    /\ variant = "MM"
    /\ route = <<Segment(truck, 1000, 200), Segment(railway, 500, 400)>>
    /\ DOMAIN view.mode_emissions = {truck, railway}
    /\ view.mode_emissions[truck] = TenthsOfKg(176)
    /\ view.mode_emissions[railway] = TenthsOfKg(46)

\* C8: delete_segment(i) on a route of length n > 1, 0 <= i < n, yields a route
\* of length n - 1: the segments before i keep index and content, every
\* segment formerly at j > i is at j - 1 with unchanged content.
C8_DeleteShifts ==
    [][\A i \in 0..MaxRoute :
          (Len(route) > 1 /\ i < Len(route) /\ DeleteSegment(i))
          => /\ Len(route') = Len(route) - 1
             /\ \A j \in 0..(i - 1) : route'[j + 1] = route[j + 1]
             /\ \A j \in (i + 1)..(Len(route) - 1) : route'[j] = route[j + 1]]_vars

C8_Witness ==
    /\ toast = "deleted"
    /\ Len(route) = MaxRoute - 1
    /\ Len(route) >= 1

\* C9: deleting the only segment of a one-segment route leaves an empty route,
\* and the run of the script that follows computes all-zero totals for it.
C9_DeleteOnly ==
    [][(Len(route) = 1 /\ DeleteSegment(0))
          => /\ route' = << >>
             /\ view'.raised = "none"
             /\ view'.total_emissions = 0
             /\ view'.total_distance = 0
             /\ view'.total_weight = 0
             /\ variant = "MM" =>
                   {"total_emissions", "total_distance", "total_weight"}
                       \subseteq view'.computed]_vars

C9_Witness ==
    /\ toast = "deleted"
    /\ route = << >>
    /\ view.total_emissions = 0
    /\ view.delete_buttons = {}

\* C10: calculate_emissions resolves mode ids case-insensitively: a mode id and
\* its lower-case form give the same outcome in emissions, efficiency, group
\* and display name for the same weight and distance (stated for the calls
\* with a positive weight and distance).
EntryFields ==
    {"total_emissions_kg", "efficiency_kg_per_tonne_km", "transport_group",
     "display_name"}
Entry(outcome) ==
    IF outcome.raised # "none" THEN outcome
    ELSE [f \in DOMAIN outcome.value \cap EntryFields |-> outcome.value[f]]

C10_CaseInsensitive ==
    (call.outcome # Pending /\ call.weight_kg > 0 /\ call.distance_km > 0) =>
       Entry(call.outcome) =
          Entry(calculate_emissions(variant, call.weight_kg, call.distance_km,
                                    lower(call.transport_mode)))

WithoutTimestamp(outcome) ==
    IF outcome.raised # "none" THEN outcome
    ELSE [f \in DOMAIN outcome.value \ {"timestamp"} |-> outcome.value[f]]

Offset(step) == step.to[2] - step.from[2]

C13_ZigZag ==
    "diagram" \in view.computed =>
       /\ Len(view.diagram_steps) = Len(route)
       /\ \A k \in DOMAIN view.diagram_steps :
             /\ view.diagram_steps[k].to[1] = k
             /\ view.diagram_steps[k].from[1] < view.diagram_steps[k].to[1]
             /\ Offset(view.diagram_steps[k]) # 0
             /\ k > 1 => Offset(view.diagram_steps[k])
                            = 0 - Offset(view.diagram_steps[k - 1])

\* C13 (amended): one line per segment, segment k (from 0) starts at x = k and
\* ends at x = k + 1; in MM the line of an even index rises by 0.5 and the line
\* of an odd index falls by 0.5, in viz every line is level at y = 0.
C13_DiagramLayout ==
    /\ (variant # "calc3" /\ route # << >> /\ view.raised = "none")
          => "diagram" \in view.computed
    /\ "diagram" \in view.computed =>
          /\ Len(view.diagram_steps) = Len(route)
          /\ \A k \in DOMAIN view.diagram_steps :
                /\ view.diagram_steps[k].from[1] = k - 1
                /\ view.diagram_steps[k].to[1] = k
                /\ k > 1 => view.diagram_steps[k].from = view.diagram_steps[k - 1].to
                /\ IF variant = "MM"
                   THEN Offset(view.diagram_steps[k]) =
                           (IF (k - 1) % 2 = 0 THEN 1 ELSE 0 - 1)
                   ELSE /\ Offset(view.diagram_steps[k]) = 0
                        /\ view.diagram_steps[k].to[2] = 0

C13_Witness ==
    /\ variant = "MM"
    /\ Len(route) = 2
    /\ "diagram" \in view.computed
    /\ view.diagram_steps[1] = [from |-> <<0, 0>>, to |-> <<1, 1>>]
    /\ view.diagram_steps[2] = [from |-> <<1, 1>>, to |-> <<2, 0>>]

\* The position, in the rendered list, of the segment the callback stale[k]
\* removed; -1 when it removed none.
Shown(k) == IF k = 1 THEN Positions(stale[1].before) ELSE stale[k - 1].left

Removed(k) ==
    LET gone == {p \in 0..MaxRoute :
                    /\ \E a \in DOMAIN Shown(k) : Shown(k)[a] = p
                    /\ \A a \in DOMAIN stale[k].left : stale[k].left[a] # p}
    IN  IF gone = {} THEN 0 - 1 ELSE CHOOSE p \in gone : TRUE

\* C14 (as claimed): when two delete_segment callbacks with indices of the same
\* rendered route run with no script run between them, the second removes a
\* segment other than the one displayed at its index, or raises IndexError.
C14_SecondDeleteIsWrong ==
    Len(stale) >= 2 =>
       \/ stale[2].raised = "IndexError"
       \/ Removed(2) # stale[2].index

\* C14 (amended): in that situation, with i the first index and j the second:
\* if j < i the second callback removes the segment displayed at j; if j >= i
\* it removes the segment displayed at j + 1, or raises IndexError and removes
\* nothing when no segment was displayed at j + 1.  The first callback removes
\* the segment displayed at i.
C14_StaleDelete ==
    /\ Len(stale) >= 1 =>
          /\ stale[1].raised = "none"
          /\ Removed(1) = stale[1].index
    /\ Len(stale) >= 2 =>
          LET i == stale[1].index
              j == stale[2].index
              n == Len(stale[1].before)
          IN  /\ j < i => (stale[2].raised = "none" /\ Removed(2) = j)
              /\ (j >= i /\ j + 1 < n) =>
                    (stale[2].raised = "none" /\ Removed(2) = j + 1)
              /\ (j >= i /\ j + 1 >= n) =>
                    (stale[2].raised = "IndexError" /\ Removed(2) = 0 - 1
                       /\ stale[2].left = stale[1].left)
    /\ stale # << >> =>
          LET left == stale[Len(stale)].left
          IN  route = [k \in DOMAIN left |-> stale[1].before[left[k] + 1]]

C14_Witness ==
    /\ Len(stale) = 2
    /\ Len(stale[1].before) = 2
    /\ stale[1].index = 0
    /\ stale[2].index = 0
    /\ stale[2].raised = "none"
    /\ Removed(2) = 1
    /\ route = << >>

\* The orders of the same segments.
Orders(segments) ==
    {[k \in DOMAIN segments |-> segments[p[k]]] : p \in Permutations(DOMAIN segments)}

Aggregate(shown) ==
    [total_emissions |-> shown.total_emissions,
     total_distance |-> shown.total_distance,
     total_weight |-> shown.total_weight,
     mode_emissions |-> shown.mode_emissions,
     category_emissions |-> shown.category_emissions]

C16_ClearAllEmpties ==
    [][ClearAll =>
          /\ Len(route') = 0
          /\ view'.delete_buttons = {}
          /\ view'.results = << >>
          /\ view'.raised = "none"
          /\ emission_factors(variant') = emission_factors(variant)]_vars

C16_Witness ==
    /\ variant = "MM"
    /\ toast = "cleared"
    /\ Len(route) = 0
    /\ view.delete_buttons = {}
    /\ view.results = << >>

C18_DiagramTotal ==
    "diagram" \in view.computed =>
       /\ variant = "MM" =>
             /\ "total_emissions" \in view.computed
             /\ view.diagram_total_emissions = view.total_emissions
       /\ view.diagram_total_emissions =
             SumFn([i \in DOMAIN route |->
                       calculate_emissions(variant, route[i].weight,
                           route[i].distance, route[i].mode).value.total_emissions_kg],
                   DOMAIN route)

C18_Witness ==
    /\ variant = "viz"
    /\ route = <<Segment(car, 1000, 200), Segment(truck, 500, 400)>>
    /\ "diagram" \in view.computed
    /\ view.diagram_total_emissions = TenthsOfKg(534)

\* The groups of mode_groups that list the mode.
GroupsOf(v, mode) ==
    {mode_groups(v)[i].group :
        i \in {k \in DOMAIN mode_groups(v) :
                  \E j \in DOMAIN mode_groups(v)[k].modes :
                     mode_groups(v)[k].modes[j] = mode}}

\* C19: in MM and calc3 every mode id of the factor table is listed by exactly
\* one group of mode_groups, and the transport_group that calculate_emissions
\* returns for such a mode (in any letter case) is that group, never 'other'.
C19_OneGroupPerMode ==
    variant # "viz" =>
       /\ \A m \in DOMAIN emission_factors(variant) :
             /\ Cardinality(GroupsOf(variant, m)) = 1
             /\ Cardinality({k \in DOMAIN mode_groups(variant) :
                               \E j \in DOMAIN mode_groups(variant)[k].modes :
                                  mode_groups(variant)[k].modes[j] = m}) = 1
       /\ (/\ call.outcome # Pending
           /\ call.outcome.raised = "none"
           /\ lower(call.transport_mode) \in DOMAIN emission_factors(variant))
          => /\ call.outcome.value.transport_group # "other"
             /\ GroupsOf(variant, lower(call.transport_mode))
                   = {call.outcome.value.transport_group}

C19_Witness ==
    /\ variant = "MM"
    /\ call.transport_mode = barge
    /\ call.outcome # Pending
    /\ call.outcome.raised = "none"
    /\ call.outcome.value.transport_group = "maritime"

====
